---- MODULE Spec2Model ----
(***************************************************************************)
(* Model of adevtool's generation front end (src/frontend/generate.ts) and *)
(* of the board makefile serializer (build/make.ts).                       *)
(*                                                                         *)
(* Strings are modelled as sequences of tokens: a combined partition path  *)
(* "vendor/b" is <<"vendor", "b">>, and a target path "out/.../vendor/b"   *)
(* is the token sequence of the prefix followed by the combined path.      *)
(* A JavaScript Map is a sequence of [key, value] records in insertion     *)
(* order.  A nullable value is Null or Some(v).                            *)
(***************************************************************************)
EXTENDS Integers, Sequences, FiniteSets, TLC

VARIABLES
    \* enumerateFiles
    stockSrc,             \* stock root: present partition -> set of file names
    customMode,           \* "state" | "src" | "none": which custom input is given
    customRoot,           \* custom side: present partition -> set of file names
    filters,              \* the main Filters of the file listing
    forceIncludeFilters,  \* Null or Some(Filters)
    namedEntries,         \* Map<string, BlobEntry>
    partIdx,              \* position of the loop over ALL_SYS_PARTITIONS
    spinner,              \* spinner.text
    \* resolveOverrides
    device,               \* config.device.name
    modulesMap,           \* parsed module-info.json: name -> [installed, path]
    ovPc,                 \* "idle" | "start" | "done"
    builtPaths,           \* builtPaths of findOverrideModules
    builtModules,         \* the value resolveOverrides returns
    \* resolveSepolicyDirs
    dirContexts,          \* upstream policy tree: source directory -> labels it defines
    stockContexts,        \* parsePartContexts(stockSrc): partition -> labels
    customContexts,       \* the custom side's contexts: partition -> labels
    sepolicyFilters,      \* config.filters.sepolicy_dirs
    sourceContexts,       \* SelinuxContexts: label -> source path
    dirIdx,               \* position of the loop over config.platform.sepolicy_dirs
    ctxResolutions,       \* Null until resolved, then Some(SelinuxPartResolutions)
    \* generateBuildFiles
    genArgs,              \* the arguments generateBuildFiles was called with
    boardMakefile,        \* build.boardMakefile: field name -> value
    boardMk,              \* Null, or the lines of the written board makefile
    sepPc,                \* "scan" | "resolved" | "generated" | "idle"
    \* extractProps
    stockProps,           \* loadPartitionProps(stockSrc): partition -> key -> value
    customProps,          \* the custom side's properties
    propFilters,          \* config.filters.props and config.filters.partitions
    propResults           \* Null until extractProps returns, then Some(PropResults)

vars == <<stockSrc, customMode, customRoot, filters, forceIncludeFilters,
          namedEntries, partIdx, spinner,
          device, modulesMap, ovPc, builtPaths, builtModules,
          dirContexts, stockContexts, customContexts, sepolicyFilters,
          sourceContexts, dirIdx, ctxResolutions,
          genArgs, boardMakefile, boardMk, sepPc,
          stockProps, customProps, propFilters, propResults>>

filesVars == <<stockSrc, customMode, customRoot, filters, forceIncludeFilters,
               partIdx, spinner>>
overrideVars == <<device, modulesMap, ovPc, builtPaths, builtModules>>
sepolicyVars == <<dirContexts, stockContexts, customContexts, sepolicyFilters,
                  sourceContexts, dirIdx, ctxResolutions,
                  genArgs, boardMakefile, boardMk, sepPc>>
propVars == <<stockProps, customProps, propFilters, propResults>>

----------------------------------------------------------------------------
(* Bounds *)

\* number of distinct file names a partition may hold
MaxName == 2

\* number of modules in module-info.json
MaxModule == 2

\* number of distinct SELinux context labels
MaxLabel == 2

\* number of distinct property keys besides the two extractProps reads
MaxKey == 2

----------------------------------------------------------------------------
(* Generic helpers *)

Null == [isNull |-> TRUE]
Some(v) == [isNull |-> FALSE, val |-> v]

Range(s) == {s[i] : i \in 1..Len(s)}

\* every string token of the model, in lexicographic order
Lexicon ==
    <<"a", "b", "c", "ctxA", "ctxB", "ctxC", "d", "dirA", "dirB", "system", "vendor">>

tokenRank(t) == CHOOSE i \in 1..Len(Lexicon) : Lexicon[i] = t

RECURSIVE SetToSeq(_)
SetToSeq(S) ==
    IF S = {} THEN <<>>
    ELSE LET m == CHOOSE x \in S : \A y \in S : tokenRank(x) <= tokenRank(y)
         IN <<m>> \o SetToSeq(S \ {m})

\* some enumeration of a finite set
RECURSIVE SetToAnySeq(_)
SetToAnySeq(S) ==
    IF S = {} THEN <<>>
    ELSE LET m == CHOOSE x \in S : TRUE IN <<m>> \o SetToAnySeq(S \ {m})

\* Map.has / Map.set / Map.delete / Map.keys of a JavaScript Map
MapHas(m, k) == \E i \in 1..Len(m) : m[i].key = k

MapSet(m, k, v) ==
    IF MapHas(m, k)
    THEN [i \in 1..Len(m) |-> IF m[i].key = k THEN [key |-> k, value |-> v] ELSE m[i]]
    ELSE Append(m, [key |-> k, value |-> v])

MapDelete(m, k) == SelectSeq(m, LAMBDA e : e.key # k)

MapKeys(m) == [i \in 1..Len(m) |-> m[i].key]

MapGet(m, k) == (CHOOSE e \in Range(m) : e.key = k).value

----------------------------------------------------------------------------
(* Partitions, paths, filters, listings *)

ALL_SYS_PARTITIONS == <<"system", "vendor">>

Partitions == Range(ALL_SYS_PARTITIONS)

FileNames == <<"a", "b", "c", "d">>

Names == {FileNames[i] : i \in 1..MaxName}

\* `${partition}/${path}`
combinedPartPath(partition, name) == <<partition, name>>

AllKeys == {combinedPartPath(p, n) : p \in Partitions, n \in Names}

combinedPartPathToEntry(partition, cPartPath) ==
    [partition |-> partition, path |-> SubSeq(cPartPath, 2, Len(cPartPath)),
     srcPath |-> cPartPath]

\* a.localeCompare(b) <= 0 for two combined paths
localeCompareLeq(a, b) ==
    \/ tokenRank(a[1]) < tokenRank(b[1])
    \/ a[1] = b[1] /\ tokenRank(a[2]) <= tokenRank(b[2])

RECURSIVE sortInsert(_, _)
sortInsert(x, s) ==
    IF s = <<>> THEN <<x>>
    ELSE IF localeCompareLeq(Head(s), x) THEN <<Head(s)>> \o sortInsert(x, Tail(s))
    ELSE <<x>> \o s

\* Array.prototype.sort((a, b) => a.localeCompare(b))
RECURSIVE sort(_)
sort(s) == IF s = <<>> THEN <<>> ELSE sortInsert(Head(s), sort(Tail(s)))

\* A pattern is a file name: it matches the combined paths with that name,
\* in whatever partition.
filterValue(f, value) ==
    /\ (f.include = {} \/ value[2] \in f.include)
    /\ value[2] \notin f.exclude

filterValues(f, values) == SelectSeq(values, LAMBDA v : filterValue(f, v))

\* the unfiltered, sorted listing of a partition directory
listDir(partition, root) ==
    LET names == SetToSeq(root[partition])
    IN [i \in 1..Len(names) |-> combinedPartPath(partition, names[i])]

listPart(partition, root, f) ==
    IF partition \notin DOMAIN root THEN Null
    ELSE Some(filterValues(f, listDir(partition, root)))

diffLists(filesFirst, filesSecond) ==
    SelectSeq(filesSecond, LAMBDA v : v \notin Range(filesFirst))

\* customState: SystemState | null
customState ==
    IF customMode = "state"
    THEN Some([partitionFiles |-> [p \in DOMAIN customRoot |-> listDir(p, customRoot)]])
    ELSE Null

\* customSrc: string | null
customSrc == IF customMode = "src" THEN Some(customRoot) ELSE Null

\* customState.partitionFiles[partition]
partitionFilesOf(state, partition) ==
    IF partition \in DOMAIN state.partitionFiles
    THEN Some(state.partitionFiles[partition])
    ELSE Null

----------------------------------------------------------------------------
(* enumerateFiles *)

\* generate.ts 42: the stock listing
filesRefOf(partition) == listPart(partition, stockSrc, filters)

\* variant: a custom side without the partition counts as an empty listing
filesNewOf_NullAsEmpty(partition) ==
    IF ~customState.isNull
    THEN (IF partition \in DOMAIN customState.val.partitionFiles
          THEN Some(customState.val.partitionFiles[partition]) ELSE Some(<<>>))
    ELSE IF ~customSrc.isNull
    THEN (IF partition \in DOMAIN customSrc.val
          THEN listPart(partition, customSrc.val, filters) ELSE Some(<<>>))
    ELSE Some(<<>>)

\* generate.ts 44-46: the custom listing
filesNewOf(partition) ==
    IF ~customState.isNull THEN partitionFilesOf(customState.val, partition)
    ELSE IF ~customSrc.isNull THEN listPart(partition, customSrc.val, filters)
    ELSE Some(<<>>)

\* variant: the arguments of the diff swapped
diffMissing_Swapped(filesNew, filesRef) == diffLists(filesRef, filesNew)

\* generate.ts 49: the arguments are (custom, stock)
diffMissing(filesNew, filesRef) == diffLists(filesNew, filesRef)

\* variant: the force-include filters applied to the unfiltered stock listing
forcedFilesOf_Unfiltered(partition, filesRef) ==
    filterValues(forceIncludeFilters.val, listDir(partition, stockSrc))

\* generate.ts 53: the force-included files come from the filtered stock listing
forcedFilesOf(partition, filesRef) == filterValues(forceIncludeFilters.val, filesRef)

\* variant: the force-included files are not merged
mergeForced_NoMerge(partition, missingFiles, filesRef) == missingFiles

\* generate.ts 52-57: with the force-included files merged
mergeForced(partition, missingFiles, filesRef) ==
    IF ~forceIncludeFilters.isNull
    THEN sort(missingFiles \o forcedFilesOf(partition, filesRef))
    ELSE missingFiles

\* generate.ts 59-62
RECURSIVE setEntries(_, _, _)
setEntries(entries, partition, missingFiles) ==
    IF missingFiles = <<>> THEN entries
    ELSE setEntries(MapSet(entries, Head(missingFiles),
                           combinedPartPathToEntry(partition, Head(missingFiles))),
                    partition, Tail(missingFiles))

\* generate.ts 43, 47: is this partition skipped
skipsPartition(filesRef, filesNew) == filesRef.isNull \/ filesNew.isNull

\* generate.ts 42-62: one iteration of the loop, the new namedEntries
enumeratePartition(partition, entries) ==
    LET filesRef == filesRefOf(partition)
        filesNew == filesNewOf(partition)
    IN  IF skipsPartition(filesRef, filesNew) THEN entries
        ELSE setEntries(entries, partition,
                 mergeForced(partition, diffMissing(filesNew.val, filesRef.val),
                             filesRef.val))

EnumerateFiles ==
    /\ ovPc = "idle"
    /\ partIdx <= Len(ALL_SYS_PARTITIONS)
    /\ LET partition == ALL_SYS_PARTITIONS[partIdx]
       IN  /\ namedEntries' = enumeratePartition(partition, namedEntries)
           /\ spinner' = IF skipsPartition(filesRefOf(partition), filesNewOf(partition))
                         THEN spinner ELSE partition
    /\ partIdx' = partIdx + 1
    /\ UNCHANGED <<stockSrc, customMode, customRoot, filters, forceIncludeFilters>>
    /\ UNCHANGED overrideVars
    /\ UNCHANGED sepolicyVars
    /\ UNCHANGED propVars

enumerateDone == partIdx > Len(ALL_SYS_PARTITIONS)

----------------------------------------------------------------------------
(* Inputs of enumerateFiles *)

Roots == UNION {[D -> SUBSET Names] : D \in SUBSET Partitions}

FilterChoices ==
    {[include |-> {}, exclude |-> {}], [include |-> {}, exclude |-> {"a"}]}

ForceChoices ==
    {Null, Some([include |-> {"a"}, exclude |-> {}]), Some([include |-> {"b"}, exclude |-> {}])}

InitFiles ==
    /\ stockSrc \in Roots
    /\ customMode \in {"state", "src", "none"}
    /\ customRoot \in IF customMode = "none" THEN {<<>>} ELSE Roots
    /\ filters \in FilterChoices
    /\ forceIncludeFilters \in ForceChoices
    /\ namedEntries = <<>>
    /\ partIdx = 1
    /\ spinner = ""
    /\ device = "raven"
    /\ modulesMap = <<>>
    /\ ovPc = "idle"
    /\ builtPaths = {}
    /\ builtModules = {}
    /\ dirContexts = <<>>
    /\ stockContexts = <<>>
    /\ customContexts = <<>>
    /\ sepolicyFilters = [include |-> {}, exclude |-> {}]
    /\ sourceContexts = <<>>
    /\ dirIdx = 1
    /\ ctxResolutions = Null
    /\ genArgs = Null
    /\ boardMakefile = <<>>
    /\ boardMk = Null
    /\ sepPc = "idle"
    /\ stockProps = <<>>
    /\ customProps = <<>>
    /\ propFilters = <<>>
    /\ propResults = Null

SpecFiles == InitFiles /\ [][EnumerateFiles]_vars

----------------------------------------------------------------------------
(* resolveOverrides *)

\* the directories of the generated vendor tree (VendorDirectories)
dirs ==
    [out |-> "vendor/google_devices/raven",
     proprietary |-> "vendor/google_devices/raven/proprietary",
     sepolicy |-> "vendor/google_devices/raven/sepolicy",
     firmware |-> "vendor/google_devices/raven/firmware"]

\* `out/target/product/${config.device.name}/`
targetPrefix(deviceName) == <<"out", "target", "product", deviceName>>

\* String.prototype.replace(pattern, ''): the first occurrence of the
\* pattern is removed
replaceFirst(str, pattern) ==
    LET hits == {i \in 1..(Len(str) - Len(pattern) + 1) :
                    SubSeq(str, i, i + Len(pattern) - 1) = pattern}
    IN  IF hits = {} THEN str
        ELSE LET i == CHOOSE h \in hits : \A g \in hits : h <= g
             IN SubSeq(str, 1, i - 1) \o SubSeq(str, i + Len(pattern), Len(str))

\* modules whose owning directory is the given one are dropped
removeSelfModules(mm, proprietaryDir) ==
    SelectSeq(mm, LAMBDA e : proprietaryDir \notin e.value.path)

\* the modules that install one of the paths, and the paths they install
findOverrideModules(overridePaths, mm) ==
    LET hit(e) == e.value.installed \cap Range(overridePaths)
    IN  [modules |-> {e.key : e \in {x \in Range(mm) : hit(x) # {}}},
         builtPaths |-> UNION {hit(e) : e \in Range(mm)}]

\* generate.ts 74-75
targetPathsOf(entries) ==
    [i \in 1..Len(entries) |-> targetPrefix(device) \o entries[i].key]

\* variant: the module map is matched as parsed
matchedModules_KeepSelf(mm) == mm

\* generate.ts 79-80: the module map, without the tool's own modules
matchedModules(mm) == removeSelfModules(mm, dirs.proprietary)

\* variant: the target path is used as the key
builtKey_NoStrip(path) == path

\* generate.ts 85: path.replace(targetPrefix, '')
builtKey(path) == replaceFirst(path, targetPrefix(device))

\* generate.ts 84-86
deleteBuilt(entries, paths) ==
    SelectSeq(entries, LAMBDA e : e.key \notin {builtKey(pa) : pa \in paths})

ResolveOverrides ==
    /\ ovPc = "start"
    /\ LET found == findOverrideModules(targetPathsOf(namedEntries),
                                        matchedModules(modulesMap))
       IN  /\ namedEntries' = deleteBuilt(namedEntries, found.builtPaths)
           /\ builtPaths' = found.builtPaths
           /\ builtModules' = found.modules
    /\ ovPc' = "done"
    /\ UNCHANGED <<device, modulesMap>>
    /\ UNCHANGED filesVars
    /\ UNCHANGED sepolicyVars
    /\ UNCHANGED propVars

\* the paths a module may install: the candidates' target paths and one of
\* another device's output tree
InstallablePaths ==
    {targetPrefix("raven") \o k : k \in AllKeys}
        \cup {targetPrefix("oriole") \o combinedPartPath("system", "a")}

ModuleInfos ==
    [installed : {{}} \cup {{t} : t \in InstallablePaths},
     path : {{dirs.proprietary}, {"hardware/google/pixel"}}]

ModuleMaps ==
    {mm \in [1..MaxModule -> ModuleInfos] :
        \A i, j \in 1..MaxModule : i # j => mm[i].installed \cap mm[j].installed = {}}

\* namedEntries as enumerateFiles leaves it for a set of missing paths
entriesOf(keys) ==
    LET ks == sort(SetToAnySeq(keys))
    IN [i \in 1..Len(ks) |-> [key |-> ks[i],
                              value |-> combinedPartPathToEntry(ks[i][1], ks[i])]]

InitOverrides ==
    /\ stockSrc = <<>>
    /\ customMode = "none"
    /\ customRoot = <<>>
    /\ filters = [include |-> {}, exclude |-> {}]
    /\ forceIncludeFilters = Null
    /\ \E keys \in SUBSET AllKeys : namedEntries = entriesOf(keys)
    /\ partIdx = Len(ALL_SYS_PARTITIONS) + 1
    /\ spinner = ""
    /\ device = "raven"
    /\ \E mm \in ModuleMaps :
          modulesMap = [i \in 1..MaxModule |-> [key |-> i, value |-> mm[i]]]
    /\ ovPc = "start"
    /\ builtPaths = {}
    /\ builtModules = {}
    /\ dirContexts = <<>>
    /\ stockContexts = <<>>
    /\ customContexts = <<>>
    /\ sepolicyFilters = [include |-> {}, exclude |-> {}]
    /\ sourceContexts = <<>>
    /\ dirIdx = 1
    /\ ctxResolutions = Null
    /\ genArgs = Null
    /\ boardMakefile = <<>>
    /\ boardMk = Null
    /\ sepPc = "idle"
    /\ stockProps = <<>>
    /\ customProps = <<>>
    /\ propFilters = <<>>
    /\ propResults = Null

SpecOverrides == InitOverrides /\ [][ResolveOverrides]_vars

----------------------------------------------------------------------------
(* resolveSepolicyDirs *)

LabelNames == <<"ctxA", "ctxB", "ctxC">>

Labels == {LabelNames[i] : i \in 1..MaxLabel}

\* config.platform.sepolicy_dirs, in configuration order
sepolicy_dirs == <<"dirA", "dirB">>

\* the file of a source directory that defines its labels
sourceOf(dir) == <<dir, "file_contexts">>

\* the directory of a source path: all but its last component
sourceDirOf(source) == source[1]

\* parseContextsRecursive(dir, '.'): the labels of a directory with their
\* sources, as a Map whose entries come in the order given
parseContextsRecursive(dir, order) ==
    [i \in 1..Len(order) |-> [key |-> order[i], value |-> sourceOf(dir)]]

\* the orders in which the entries of a set may be returned
Orders(S) ==
    {o \in [1..Cardinality(S) -> S] : \A i, j \in 1..Cardinality(S) : o[i] = o[j] => i = j}

\* variant: a label already in the table keeps its source
setContext_KeepFirst(table, ctx, source) ==
    [x \in DOMAIN table \cup {ctx} |->
        IF x \in DOMAIN table THEN table[x] ELSE source]

\* generate.ts 184: sourceContexts.set(ctx, source)
setContext(table, ctx, source) ==
    [x \in DOMAIN table \cup {ctx} |-> IF x = ctx THEN source ELSE table[x]]

\* generate.ts 183-185
RECURSIVE mergeContexts(_, _)
mergeContexts(table, contexts) ==
    IF contexts = <<>> THEN table
    ELSE mergeContexts(setContext(table, Head(contexts).key, Head(contexts).value),
                       Tail(contexts))

\* generate.ts 180-186: one iteration of the loop over the source directories
ScanSepolicyDir ==
    /\ sepPc = "scan"
    /\ dirIdx <= Len(sepolicy_dirs)
    /\ \E order \in Orders(dirContexts[sepolicy_dirs[dirIdx]]) :
          sourceContexts' =
              mergeContexts(sourceContexts,
                            parseContextsRecursive(sepolicy_dirs[dirIdx], order))
    /\ dirIdx' = dirIdx + 1
    /\ UNCHANGED <<dirContexts, stockContexts, customContexts, sepolicyFilters,
                   ctxResolutions, genArgs, boardMakefile, boardMk, sepPc>>
    /\ UNCHANGED <<filesVars, namedEntries, overrideVars, propVars>>

\* diffPartContexts(ctxRef, ctxNew): per partition present on both sides, the
\* labels of ctxNew that ctxRef lacks
diffPartContexts(pctxRef, pctxNew) ==
    LET parts == SelectSeq(ALL_SYS_PARTITIONS,
                           LAMBDA p : p \in DOMAIN pctxRef /\ p \in DOMAIN pctxNew)
    IN [i \in 1..Len(parts) |->
           [key |-> parts[i],
            value |-> [added |-> SetToSeq(pctxNew[parts[i]] \ pctxRef[parts[i]])]]]

filterDir(f, dir) == (f.include = {} \/ dir \in f.include) /\ dir \notin f.exclude

\* the source directories of the labels found, each once, in the order of
\* first discovery
RECURSIVE resolvedDirs(_, _, _)
resolvedDirs(added, table, acc) ==
    IF added = <<>> THEN acc
    ELSE LET ctx == Head(added)
             dir == sourceDirOf(table[ctx])
         IN  resolvedDirs(Tail(added), table,
                 IF ctx \in DOMAIN table /\ dir \notin Range(acc)
                 THEN Append(acc, dir) ELSE acc)

resolvePartContextDiffs(pctxDiffs, table, f) ==
    [i \in 1..Len(pctxDiffs) |->
        [key |-> pctxDiffs[i].key,
         value |->
            [sepolicyDirs |->
                 SelectSeq(resolvedDirs(pctxDiffs[i].value.added, table, <<>>),
                           LAMBDA d : filterDir(f, d)),
             missingContexts |->
                 SelectSeq(pctxDiffs[i].value.added,
                           LAMBDA c : c \notin DOMAIN table)]]]

\* variant: the directory is pushed for every partition
addApexLabels_AllPartitions(resolutions) ==
    [i \in 1..Len(resolutions) |->
        [key |-> resolutions[i].key,
         value |-> [resolutions[i].value EXCEPT
                       !.sepolicyDirs = Append(@, dirs.sepolicy)]]]

\* generate.ts 192-195
addApexLabels(resolutions) ==
    IF MapHas(resolutions, "vendor")
    THEN [i \in 1..Len(resolutions) |->
            IF resolutions[i].key = "vendor"
            THEN [key |-> "vendor",
                  value |-> [resolutions[i].value EXCEPT
                                !.sepolicyDirs = Append(@, dirs.sepolicy)]]
            ELSE resolutions[i]]
    ELSE resolutions

\* generate.ts 188-197
ResolveSepolicyDirs ==
    /\ sepPc = "scan"
    /\ dirIdx > Len(sepolicy_dirs)
    /\ LET ctxDiffs == diffPartContexts(customContexts, stockContexts)
       IN ctxResolutions' =
              Some(addApexLabels(
                  resolvePartContextDiffs(ctxDiffs, sourceContexts, sepolicyFilters)))
    /\ sepPc' = "resolved"
    /\ UNCHANGED <<dirContexts, stockContexts, customContexts, sepolicyFilters,
                   sourceContexts, dirIdx, genArgs, boardMakefile, boardMk>>
    /\ UNCHANGED <<filesVars, namedEntries, overrideVars, propVars>>

----------------------------------------------------------------------------
(* The board makefile: generateBuildFiles and serializeBoardMakefile *)

ANDROID_INFO == "android-info.txt"

MAKEFILE_HEADER == <<<<"# Generated by adevtool; do not edit.">>>>

\* make.ts 9-15
SEPOLICY_PARTITION_VARS(partition) ==
    CASE partition = "system" -> "BOARD_PLAT_PUBLIC_SEPOLICY_DIR"
      [] partition = "system_ext" -> "SYSTEM_EXT_PUBLIC_SEPOLICY_DIRS"
      [] partition = "product" -> "PRODUCT_PUBLIC_SEPOLICY_DIRS"
      [] partition = "vendor" -> "BOARD_VENDOR_SEPOLICY_DIRS"
      [] partition = "odm" -> "BOARD_ODM_SEPOLICY_DIRS"
      [] OTHER -> "undefined"

\* an object literal, and the spread of a field into it
emptyObject == [x \in {} |-> {}]

withField(obj, field, value) ==
    [x \in DOMAIN obj \cup {field} |-> IF x = field THEN value ELSE obj[x]]

hasField(obj, field) == field \in DOMAIN obj

\* make.ts 48-50
startBlocks == <<MAKEFILE_HEADER>>

\* make.ts 52-54: the blocks joined by an empty line; a text is its lines
RECURSIVE finishBlocks(_)
finishBlocks(blocks) ==
    IF blocks = <<>> THEN <<>>
    ELSE IF Len(blocks) = 1 THEN Head(blocks)
    ELSE Head(blocks) \o <<<<>>>> \o finishBlocks(Tail(blocks))

\* make.ts 105-110
addContBlock(blocks, variable, items) ==
    IF ~items.isNull
    THEN Append(blocks,
             <<<<variable, " += \\">>>> \o
             [i \in 1..Len(items.val) |->
                 IF i < Len(items.val) THEN <<"    ", items.val[i], " \\">>
                 ELSE <<"    ", items.val[i]>>])
    ELSE blocks

\* the field of the board makefile a reader takes, undefined when not set
fieldOf(mk, field) == IF hasField(mk, field) THEN Some(mk[field]) ELSE Null

\* make.ts 156-168: the blocks of the partitions' policy directories and
\* unresolved labels
RECURSIVE contextBlocks(_, _)
contextBlocks(blocks, resolutions) ==
    IF resolutions = <<>> THEN blocks
    ELSE LET partition == Head(resolutions).key
             sepolicyDirs == Head(resolutions).value.sepolicyDirs
             missingContexts == Head(resolutions).value.missingContexts
             withDirs == IF Len(sepolicyDirs) > 0
                         THEN addContBlock(blocks, SEPOLICY_PARTITION_VARS(partition),
                                           Some(sepolicyDirs))
                         ELSE blocks
             withMissing ==
                 IF Len(missingContexts) > 0
                 THEN Append(withDirs,
                          [i \in 1..Len(missingContexts) |->
                              <<"# Missing ", partition, " SELinux context: ",
                                missingContexts[i]>>])
                 ELSE withDirs
         IN  contextBlocks(withMissing, Tail(resolutions))

\* make.ts 139-171
serializeBoardMakefile(mk) ==
    LET abOtaPartitions == fieldOf(mk, "abOtaPartitions")
        boardInfo == fieldOf(mk, "boardInfo")
        secontextResolutions == fieldOf(mk, "secontextResolutions")
        b1 == Append(startBlocks,
                     <<<<"BUILD_BROKEN_ELF_PREBUILT_PRODUCT_COPY_FILES := true">>>>)
        b2 == IF ~abOtaPartitions.isNull /\ "vendor" \in Range(abOtaPartitions.val)
              THEN Append(b1, <<<<"BOARD_VENDORIMAGE_FILE_SYSTEM_TYPE := ext4">>>>)
              ELSE b1
        b3 == addContBlock(b2, "AB_OTA_PARTITIONS", abOtaPartitions)
        b4 == IF ~boardInfo.isNull
              THEN Append(b3, <<<<"TARGET_BOARD_INFO_FILE := ", boardInfo.val>>>>)
              ELSE b3
        b5 == IF ~secontextResolutions.isNull
              THEN contextBlocks(b4, secontextResolutions.val)
              ELSE b4
    IN  finishBlocks(b5)

\* generate.ts 282-291: build.boardMakefile
boardMakefileOf(args) ==
    LET m1 == IF ~args.sepolicyResolutions.isNull
              THEN withField(emptyObject, "sepolicyResolutions",
                             args.sepolicyResolutions.val)
              ELSE emptyObject
        withOta == ~args.propResults.isNull
                      /\ Len(args.propResults.val.missingOtaParts) > 0
        m2 == IF withOta
              THEN withField(m1, "buildPartitions", args.propResults.val.missingOtaParts)
              ELSE m1
        m3 == IF withOta /\ args.addAbOtaParts
              THEN withField(m2, "abOtaPartitions", args.propResults.val.missingOtaParts)
              ELSE m2
    IN  IF ~args.fwPaths.isNull
        THEN withField(m3, "boardInfo", <<dirs.firmware, "/", ANDROID_INFO>>)
        ELSE m3

\* writeBuildFiles: the board makefile is serialized and written
writeBuildFiles(mk) == Some(serializeBoardMakefile(mk))

\* the arguments generateBuildFiles is called with after resolveSepolicyDirs
GenerateArgs ==
    {[sepolicyResolutions |-> r, propResults |-> pr, fwPaths |-> fw,
      addAbOtaParts |-> ab] :
        r \in {Null, ctxResolutions},
        pr \in {Null, Some([missingOtaParts |-> <<"vendor">>])},
        fw \in {Null, Some(<<"radio.img">>)},
        ab \in BOOLEAN}

\* generate.ts 255-329, the board makefile; firmware paths and property
\* results are given together, as the caller obtains both from the stock image
GenerateBuildFiles ==
    /\ sepPc = "resolved"
    /\ \E args \in GenerateArgs :
          /\ args.propResults.isNull = args.fwPaths.isNull
          /\ args.propResults.isNull => args.addAbOtaParts
          /\ genArgs' = Some(args)
          /\ boardMakefile' = boardMakefileOf(args)
          /\ boardMk' = writeBuildFiles(boardMakefileOf(args))
    /\ sepPc' = "generated"
    /\ UNCHANGED <<dirContexts, stockContexts, customContexts, sepolicyFilters,
                   sourceContexts, dirIdx, ctxResolutions>>
    /\ UNCHANGED <<filesVars, namedEntries, overrideVars, propVars>>

\* the contexts of an image: some partitions, each with some labels
PartContexts == UNION {[D -> SUBSET Labels] : D \in SUBSET Partitions}

CustomPartContexts == UNION {[D -> {{}, {"ctxA"}}] : D \in SUBSET Partitions}

InitSepolicy ==
    /\ stockSrc = <<>>
    /\ customMode = "none"
    /\ customRoot = <<>>
    /\ filters = [include |-> {}, exclude |-> {}]
    /\ forceIncludeFilters = Null
    /\ namedEntries = <<>>
    /\ partIdx = 1
    /\ spinner = ""
    /\ device = "raven"
    /\ modulesMap = <<>>
    /\ ovPc = "idle"
    /\ builtPaths = {}
    /\ builtModules = {}
    /\ dirContexts \in [Range(sepolicy_dirs) -> SUBSET Labels]
    /\ stockContexts \in PartContexts
    /\ customContexts \in CustomPartContexts
    /\ sepolicyFilters \in {[include |-> {}, exclude |-> {}],
                            [include |-> {}, exclude |-> {"dirA"}]}
    /\ sourceContexts = <<>>
    /\ dirIdx = 1
    /\ ctxResolutions = Null
    /\ genArgs = Null
    /\ boardMakefile = emptyObject
    /\ boardMk = Null
    /\ sepPc = "scan"
    /\ stockProps = <<>>
    /\ customProps = <<>>
    /\ propFilters = <<>>
    /\ propResults = Null

SpecSepolicy ==
    InitSepolicy /\ [][ScanSepolicyDir \/ ResolveSepolicyDirs \/ GenerateBuildFiles]_vars

----------------------------------------------------------------------------
(* extractProps *)

KeyNames == <<"ro.a", "ro.b", "ro.c">>

PropKeys == {KeyNames[i] : i \in 1..MaxKey}

FINGERPRINT_KEY == "ro.system.build.fingerprint"
AB_OTA_KEY == "ro.product.ab_ota_partitions"

\* String.prototype.split(','): the components of a comma-separated list
RECURSIVE split(_)
split(str) ==
    IF str = <<>> THEN <<>>
    ELSE IF Head(str) = "," THEN split(Tail(str))
    ELSE <<Head(str)>> \o split(Tail(str))

\* filterValue for a property key or a partition name
filterName(f, name) == (f.include = {} \/ name \in f.include) /\ name \notin f.exclude

\* filterKeys(filters, props): the keys the filters reject are deleted
filterKeys(f, props) == [k \in {x \in DOMAIN props : filterName(f, x)} |-> props[k]]

\* diffPartitionProps(ref, new): per partition present on both sides, the
\* keys only ref has with their values (removed), the keys only new has
\* (added) and the keys of both whose values differ (changed)
diffPartitionProps(partPropsRef, partPropsNew) ==
    [part \in DOMAIN partPropsRef \cap DOMAIN partPropsNew |->
        LET ref == partPropsRef[part]
            new == partPropsNew[part]
        IN  [removed |-> [k \in DOMAIN ref \ DOMAIN new |-> ref[k]],
             added |-> [k \in DOMAIN new \ DOMAIN ref |-> new[k]],
             changed |-> [k \in {x \in DOMAIN ref \cap DOMAIN new : ref[x] # new[x]}
                             |-> new[k]]]]

\* variant: the changed keys are passed on as well
missingOfChanges_WithChanged(props) ==
    [k \in DOMAIN props.removed \cup DOMAIN props.changed |->
        IF k \in DOMAIN props.removed THEN props.removed[k] ELSE props.changed[k]]

\* generate.ts 149: [part, props.removed]
missingOfChanges(props) == props.removed

\* generate.ts 153-156
missingOtaPartsOf(stock, custom) ==
    LET stockOtaParts == split(stock["product"][AB_OTA_KEY])
        customOtaParts ==
            IF "product" \in DOMAIN custom /\ AB_OTA_KEY \in DOMAIN custom["product"]
            THEN Range(split(custom["product"][AB_OTA_KEY]))
            ELSE {}
    IN  SelectSeq(stockOtaParts,
                  LAMBDA pa : pa \notin customOtaParts
                                  /\ filterName(propFilters.partitions, pa))

\* generate.ts 128-165
extractPropsResult ==
    LET stock == [part \in DOMAIN stockProps |->
                     filterKeys(propFilters.props, stockProps[part])]
        custom == [part \in DOMAIN customProps |->
                      filterKeys(propFilters.props, customProps[part])]
        propChanges == diffPartitionProps(stock, custom)
    IN  [stockProps |-> stock,
         missingProps |-> [part \in DOMAIN propChanges |->
                              missingOfChanges(propChanges[part])],
         fingerprint |-> stock["system"][FINGERPRINT_KEY],
         missingOtaParts |-> missingOtaPartsOf(stock, custom)]

ExtractProps ==
    /\ propResults.isNull
    /\ propResults' = Some(extractPropsResult)
    /\ UNCHANGED <<stockProps, customProps, propFilters>>
    /\ UNCHANGED <<filesVars, namedEntries, overrideVars, sepolicyVars>>

\* the property files of a partition over the free keys
PropsOver(values) == UNION {[D -> values] : D \in SUBSET PropKeys}

withProp(props, key, value) ==
    [k \in DOMAIN props \cup {key} |-> IF k = key THEN value ELSE props[k]]

StockOtaValues == {<<"vendor">>, <<"vendor", ",", "odm">>}

\* the stock image: system with its fingerprint, product with its OTA list
StockPartProps ==
    {[part \in {"system", "product"} |->
         IF part = "system" THEN withProp(sys, FINGERPRINT_KEY, "google/raven")
         ELSE withProp(prod, AB_OTA_KEY, ota)] :
        sys \in PropsOver({"1"}),
        prod \in {<<>>, [k \in {"ro.a"} |-> "1"]},
        ota \in StockOtaValues}

\* the custom side: customState.partitionProps, loadPartitionProps(customSrc),
\* or the empty map when neither is given
CustomPartProps ==
    UNION {
        {[part \in D |->
             IF part = "system" THEN sys
             ELSE IF part = "product" THEN prod
             ELSE <<>>] :
            sys \in PropsOver({"1", "2"}),
            prod \in {<<>>, [k \in {"ro.a"} |-> "1"], [k \in {"ro.a"} |-> "2"],
                      [k \in {AB_OTA_KEY} |-> <<"vendor">>]}} :
        D \in SUBSET {"system", "product"}}

PropFilterChoices ==
    {[props |-> [include |-> {}, exclude |-> e], partitions |-> [include |-> {}, exclude |-> x]] :
        e \in {{}, {"ro.a"}}, x \in {{}, {"odm"}}}

InitProps ==
    /\ stockSrc = <<>>
    /\ customMode = "none"
    /\ customRoot = <<>>
    /\ filters = [include |-> {}, exclude |-> {}]
    /\ forceIncludeFilters = Null
    /\ namedEntries = <<>>
    /\ partIdx = 1
    /\ spinner = ""
    /\ device = "raven"
    /\ modulesMap = <<>>
    /\ ovPc = "idle"
    /\ builtPaths = {}
    /\ builtModules = {}
    /\ dirContexts = <<>>
    /\ stockContexts = <<>>
    /\ customContexts = <<>>
    /\ sepolicyFilters = [include |-> {}, exclude |-> {}]
    /\ sourceContexts = <<>>
    /\ dirIdx = 1
    /\ ctxResolutions = Null
    /\ genArgs = Null
    /\ boardMakefile = <<>>
    /\ boardMk = Null
    /\ sepPc = "idle"
    /\ stockProps \in StockPartProps
    /\ customProps \in CustomPartProps
    /\ propFilters \in PropFilterChoices
    /\ propResults = Null

SpecProps == InitProps /\ [][ExtractProps]_vars

----------------------------------------------------------------------------
(* Properties of enumerateFiles, stated on its inputs *)

entryKeys == Range(MapKeys(namedEntries))

\* the pattern sets' own reading of the inputs
keptByFilters(name) ==
    /\ (filters.include = {} \/ name \in filters.include)
    /\ name \notin filters.exclude

matchesForceInclude(name) ==
    /\ ~forceIncludeFilters.isNull
    /\ (forceIncludeFilters.val.include = {} \/ name \in forceIncludeFilters.val.include)
    /\ name \notin forceIncludeFilters.val.exclude

customPresent(p) == customMode = "none" \/ p \in DOMAIN customRoot
bothPresent(p) == p \in DOMAIN stockSrc /\ customPresent(p)

stockListed(p) == {n \in stockSrc[p] : keptByFilters(n)}
customNames(p) == IF customMode = "none" THEN {} ELSE customRoot[p]

\* C1: once enumerateFiles has returned, every path of a partition's stock
\* listing that matches a force-include pattern is a key of namedEntries,
\* whether or not the custom listing has it, and no key occurs twice.
C1_ForceIncludeUnion ==
    enumerateDone =>
        /\ \A p \in Partitions : bothPresent(p) =>
              \A n \in stockListed(p) :
                  matchesForceInclude(n) => combinedPartPath(p, n) \in entryKeys
        /\ \A i, j \in 1..Len(namedEntries) :
              namedEntries[i].key = namedEntries[j].key => i = j

\* a force-included path that the custom side has too, and another one that
\* the stock-minus-custom diff had already produced
C1_Witness ==
    /\ enumerateDone
    /\ \E p, q \in Partitions : \E n \in Names :
          /\ bothPresent(p) /\ bothPresent(q) /\ matchesForceInclude(n)
          /\ n \in stockListed(p) /\ n \in customNames(p)
          /\ n \in stockListed(q) /\ n \notin customNames(q)
          /\ combinedPartPath(p, n) \in entryKeys
          /\ combinedPartPath(q, n) \in entryKeys

\* C2: every key of namedEntries is a path of the stock image, and without
\* force-include filters no key is a path of the custom side.
C2_DiffDirection ==
    \A k \in entryKeys :
        /\ k[1] \in DOMAIN stockSrc /\ k[2] \in stockSrc[k[1]]
        /\ forceIncludeFilters.isNull => k[2] \notin customNames(k[1])

\* entries were added although the custom side has paths the stock lacks
C2_Witness ==
    /\ enumerateDone
    /\ forceIncludeFilters.isNull
    /\ \E p \in Partitions :
          /\ bothPresent(p) /\ customMode # "none"
          /\ customRoot[p] \ stockSrc[p] # {}
          /\ \E k \in entryKeys : k[1] = p
    /\ \E q \in Partitions :
          /\ bothPresent(q) /\ customRoot[q] \cap stockListed(q) # {}

\* C3 (as stated): a stock path matching a force-include pattern is a key of
\* namedEntries even when the main filters exclude it.
C3_ForceBypassesFilters ==
    enumerateDone =>
        \A p \in Partitions : bothPresent(p) =>
            \A n \in stockSrc[p] :
                matchesForceInclude(n) => combinedPartPath(p, n) \in entryKeys

\* C3 (amended): a stock path matching a force-include pattern is a key of
\* namedEntries exactly when the main filters of the stock listing keep it;
\* a path the main filters exclude is never a key.
C3_ForceWithinFilters ==
    enumerateDone =>
        \A p \in Partitions : bothPresent(p) =>
            \A n \in stockSrc[p] :
                matchesForceInclude(n) =>
                    (combinedPartPath(p, n) \in entryKeys <=> keptByFilters(n))

\* a stock path that a force-include pattern matches and the main filters
\* exclude, in a partition that is diffed: it is no key of namedEntries
C3_Witness ==
    /\ enumerateDone
    /\ \E p \in Partitions : bothPresent(p) /\
          \E n \in stockSrc[p] :
              /\ matchesForceInclude(n) /\ ~keptByFilters(n)
              /\ combinedPartPath(p, n) \notin entryKeys

\* C9: a partition absent from the stock root or from the custom side adds
\* no key, the other partitions are still diffed, and with neither custom
\* state nor custom source the keys of a present partition are its whole
\* filtered stock listing.
C9_SkipAbsentPartitions ==
    enumerateDone =>
        \A p \in Partitions :
            /\ ~bothPresent(p) => \A k \in entryKeys : k[1] # p
            /\ bothPresent(p) =>
                  \A n \in stockListed(p) \ customNames(p) :
                      combinedPartPath(p, n) \in entryKeys
            /\ (bothPresent(p) /\ customMode = "none") =>
                  {k \in entryKeys : k[1] = p}
                      = {combinedPartPath(p, n) : n \in stockListed(p)}

\* the first partition is skipped for want of a custom listing although the
\* stock has files there, and the next one is still diffed
C9_Witness ==
    /\ enumerateDone
    /\ "system" \in DOMAIN stockSrc /\ stockListed("system") # {}
    /\ ~customPresent("system")
    /\ bothPresent("vendor")
    /\ \E k \in entryKeys : k[1] = "vendor"

\* with no custom input at all, the filtered stock listing is what is missing
C9_WitnessEmptyCustom ==
    /\ enumerateDone
    /\ customMode = "none"
    /\ \E p \in Partitions : p \in DOMAIN stockSrc /\ stockListed(p) # {}
    /\ \E p \in Partitions : p \notin DOMAIN stockSrc
    /\ entryKeys # {}

----------------------------------------------------------------------------
(* Properties of resolveOverrides *)

resolveOverridesStep == ovPc = "start" /\ ovPc' = "done"

selfModules == {e \in Range(modulesMap) : dirs.proprietary \in e.value.path}

\* C5: a module owned by the tool's own output directory is never among the
\* returned override modules, and a key whose target path only such a module
\* installs stays in namedEntries.
C5_SelfModulesExcluded ==
    [][resolveOverridesStep =>
          \A e \in selfModules :
              /\ e.key \notin builtModules'
              /\ e.value.installed \cap builtPaths' = {}
              /\ \A i \in 1..Len(namedEntries) :
                    targetPrefix(device) \o namedEntries[i].key \in e.value.installed
                        => namedEntries[i] \in Range(namedEntries')]_vars

\* a self module installs the target path of a key, which is kept, while
\* another module's path is built
C5_Witness ==
    /\ ovPc = "done"
    /\ builtModules # {}
    /\ \E e \in selfModules : \E k \in entryKeys :
          targetPrefix(device) \o k \in e.value.installed

\* C10: resolveOverrides deletes from namedEntries the key of every built
\* path, leaves every other entry as it was, and returns the modules that
\* install a candidate path.
C10_BuiltPathsRemoved ==
    [][resolveOverridesStep =>
          /\ \A pa \in builtPaths' :
                \E i \in 1..Len(namedEntries) :
                    /\ pa = targetPrefix(device) \o namedEntries[i].key
                    /\ ~MapHas(namedEntries', namedEntries[i].key)
          /\ \A i \in 1..Len(namedEntries) :
                targetPrefix(device) \o namedEntries[i].key \notin builtPaths'
                    => namedEntries[i] \in Range(namedEntries')
          /\ Range(namedEntries') \subseteq Range(namedEntries)
          /\ builtModules'
                = {e.key : e \in {x \in Range(modulesMap) \ selfModules :
                      \E i \in 1..Len(namedEntries) :
                          targetPrefix(device) \o namedEntries[i].key
                              \in x.value.installed}}]_vars

\* some paths were built and deleted, others stay
C10_Witness ==
    /\ ovPc = "done"
    /\ builtPaths # {}
    /\ builtModules # {}
    /\ namedEntries # <<>>
    /\ \A pa \in builtPaths : \A k \in entryKeys : pa # targetPrefix(device) \o k

----------------------------------------------------------------------------
(* Properties of resolveSepolicyDirs and of the board makefile *)

scanDone == sepPc # "idle" /\ dirIdx > Len(sepolicy_dirs)

definingDirs(label) ==
    {i \in 1..Len(sepolicy_dirs) : label \in dirContexts[sepolicy_dirs[i]]}

\* C4: once every source directory is scanned, a label that several
\* directories define maps to the source of the last of them in configuration
\* order, whatever the order of the entries within each directory's scan.
C4_LastWriteWins ==
    scanDone =>
        /\ DOMAIN sourceContexts = {l \in Labels : definingDirs(l) # {}}
        /\ \A l \in DOMAIN sourceContexts :
              \E i \in definingDirs(l) :
                  /\ \A j \in definingDirs(l) : j <= i
                  /\ sourceContexts[l] = <<sepolicy_dirs[i], "file_contexts">>

\* both directories define a label, each along with another label, so that
\* the scans have more than one order
C4_Witness ==
    /\ scanDone
    /\ \E l \in Labels :
          /\ definingDirs(l) = {1, 2}
          /\ sourceContexts[l] = <<"dirB", "file_contexts">>
    /\ \A d \in Range(sepolicy_dirs) : Cardinality(dirContexts[d]) >= 2

\* C6: every unresolved label of the resolutions handed to generateBuildFiles
\* is a "# Missing <partition> SELinux context: <label>" line of the written
\* board makefile.
C6_MissingContextsReported ==
    (sepPc = "generated" /\ ~genArgs.val.sepolicyResolutions.isNull) =>
        LET resolutions == genArgs.val.sepolicyResolutions.val
        IN \A i \in 1..Len(resolutions) :
              \A c \in Range(resolutions[i].value.missingContexts) :
                  <<"# Missing ", resolutions[i].key, " SELinux context: ", c>>
                      \in Range(boardMk.val)

\* C7 (as stated): every result has a vendor entry whose sepolicyDirs holds
\* dirs.sepolicy.
C7_VendorAlwaysInjected ==
    ~ctxResolutions.isNull =>
        \E i \in 1..Len(ctxResolutions.val) :
            /\ ctxResolutions.val[i].key = "vendor"
            /\ dirs.sepolicy \in Range(ctxResolutions.val[i].value.sepolicyDirs)

\* C7 (amended): when the resolutions have a vendor entry, dirs.sepolicy is
\* the last of its sepolicyDirs and occurs there once; no other partition
\* receives it, and no vendor entry is made when the vendor contexts were
\* not diffed.
C7_VendorInjectedWhenPresent ==
    ~ctxResolutions.isNull =>
        /\ \A i \in 1..Len(ctxResolutions.val) :
              LET e == ctxResolutions.val[i]
              IN  IF e.key = "vendor"
                  THEN /\ Len(e.value.sepolicyDirs) > 0
                       /\ e.value.sepolicyDirs[Len(e.value.sepolicyDirs)] = dirs.sepolicy
                       /\ Cardinality({j \in 1..Len(e.value.sepolicyDirs) :
                              e.value.sepolicyDirs[j] = dirs.sepolicy}) = 1
                  ELSE dirs.sepolicy \notin Range(e.value.sepolicyDirs)
        /\ MapHas(ctxResolutions.val, "vendor") =>
              ("vendor" \in DOMAIN stockContexts /\ "vendor" \in DOMAIN customContexts)

\* a vendor entry with no directory resolved from upstream receives the
\* directory, next to another partition's entry that does not
C7_Witness ==
    /\ ~ctxResolutions.isNull
    /\ \E i, j \in 1..Len(ctxResolutions.val) :
          /\ ctxResolutions.val[i].key = "vendor"
          /\ ctxResolutions.val[i].value.sepolicyDirs = <<dirs.sepolicy>>
          /\ ctxResolutions.val[j].key = "system"
          /\ ctxResolutions.val[j].value.sepolicyDirs # <<>>

----------------------------------------------------------------------------
(* Properties of extractProps *)

keptProp(key) ==
    /\ (propFilters.props.include = {} \/ key \in propFilters.props.include)
    /\ key \notin propFilters.props.exclude

\* C8: for every partition that both images have, a key the filters keep
\* that is in stock and not in custom is in missingProps with its stock
\* value, and a key the two have with different values is not in missingProps.
C8_OnlyRemovedProps ==
    ~propResults.isNull =>
        LET missingProps == propResults.val.missingProps
        IN  /\ DOMAIN missingProps = DOMAIN stockProps \cap DOMAIN customProps
            /\ \A part \in DOMAIN missingProps :
                  \A key \in DOMAIN stockProps[part] :
                      /\ (keptProp(key) /\ key \notin DOMAIN customProps[part])
                            => /\ key \in DOMAIN missingProps[part]
                               /\ missingProps[part][key] = stockProps[part][key]
                      /\ (key \in DOMAIN customProps[part]
                              /\ customProps[part][key] # stockProps[part][key])
                            => key \notin DOMAIN missingProps[part]

\* one key is removed and another is changed, in the same partition
C8_Witness ==
    /\ ~propResults.isNull
    /\ \E part \in DOMAIN propResults.val.missingProps :
          \E k1, k2 \in DOMAIN stockProps[part] :
              /\ keptProp(k1) /\ k1 \notin DOMAIN customProps[part]
              /\ k1 \in DOMAIN propResults.val.missingProps[part]
              /\ keptProp(k2) /\ k2 \in DOMAIN customProps[part]
              /\ customProps[part][k2] # stockProps[part][k2]
              /\ k2 \notin DOMAIN propResults.val.missingProps[part]

====
